---- MODULE Spec2Model ----
(***************************************************************************)
(* A model of the relay's token/market registry (market/util) and of the   *)
(* extractor's ABI processor (the event handlers that decode a log and     *)
(* republish it on downstream topics).                                     *)
(*                                                                         *)
(* Strings are sequences of one-character strings, so that lower-casing,   *)
(* joining with "-", trimming and splitting are computed and not assumed.  *)
(* A common.Address is modelled by its hex digits (one digit here); the    *)
(* hex text of an address is "0x" followed by the digits.                  *)
(***************************************************************************)
EXTENDS Naturals, Integers, Sequences, FiniteSets, Bags, TLC

\* How many times Initialize may run in one behaviour.
MaxInits == 2

\* The longest topic list of a dispatched log.
MaxTopics == 3

\* The longest fill list of a ring-mined event.
MaxFills == 3

\* The longest list of fork events sorted.
MaxForkEvents == 3

\* The most payloads dispatched on the bus.
MaxDispatch == 3

\* The bits of an int64, scaled down: amounts from 2^(Int64Bits-1) on do not
\* fit.
Int64Bits == 5

----------------------------------------------------------------------------
(* strings                                                                 *)

EmptyString == << >>

ToLowerChar(c) ==
    CASE c = "L" -> "l"
      [] c = "W" -> "w"
      [] c = "A" -> "a"
      [] c = "B" -> "b"
      [] c = "C" -> "c"
      [] c = "D" -> "d"
      [] c = "E" -> "e"
      [] c = "X" -> "x"
      [] OTHER -> c

\* strings.ToLower
ToLower(s) == [i \in 1..Len(s) |-> ToLowerChar(s[i])]

\* fmt.Sprintf("%s-%s", a, b) and a + "-" + b
Join(a, b) == a \o <<"-">> \o b

\* strings.TrimSpace
RECURSIVE TrimLeft(_)
TrimLeft(s) == IF Len(s) > 0 /\ s[1] = " " THEN TrimLeft(Tail(s)) ELSE s

RECURSIVE TrimRight(_)
TrimRight(s) ==
    IF Len(s) > 0 /\ s[Len(s)] = " " THEN TrimRight(SubSeq(s, 1, Len(s) - 1)) ELSE s

TrimSpace(s) == TrimRight(TrimLeft(s))

\* strings.Split(s, "-"): the pieces between the hyphens, in order.
RECURSIVE Split(_)
Split(s) ==
    IF \A i \in 1..Len(s) : s[i] # "-"
    THEN <<s>>
    ELSE LET i == CHOOSE j \in 1..Len(s) :
                      s[j] = "-" /\ \A k \in 1..(j - 1) : s[k] # "-"
         IN  <<SubSeq(s, 1, i - 1)>> \o Split(SubSeq(s, i + 1, Len(s)))

\* strings.HasPrefix(token, "0x")
IsAddress(token) == Len(token) >= 2 /\ token[1] = "0" /\ token[2] = "x"

----------------------------------------------------------------------------
(* addresses                                                               *)

HexDigits == {"0", "1", "2", "a", "b", "c", "d", "e"}

\* types.NilAddress, the zero value of common.Address
NilAddress == <<"0">>

Address == {<<d>> : d \in HexDigits}

\* common.Address.Hex: "0x" and the digits in lower case.
Hex(a) == <<"0", "x">> \o a

\* common.HexToAddress: drops a "0x"/"0X" prefix, decodes the digits in either
\* case, and keeps the rightmost bytes; text that is no hex decodes to zero.
HexToAddress(h) ==
    LET body == IF Len(h) >= 2 /\ h[1] = "0" /\ ToLowerChar(h[2]) = "x"
                THEN SubSeq(h, 3, Len(h)) ELSE h
        low  == ToLower(body)
    IN  IF Len(low) = 0 \/ \E i \in 1..Len(low) : low[i] \notin HexDigits
        THEN NilAddress
        ELSE <<low[Len(low)]>>

----------------------------------------------------------------------------
(* the rows the two sources of Initialize can return                       *)

DaoToken(symbol, protocol) == [Symbol |-> symbol, Protocol |-> protocol]

rowLrc   == DaoToken(<<"l">>, <<"0", "x", "a">>)
rowWeth  == DaoToken(<<"w">>, <<"0", "x", "b">>)
rowUpper == DaoToken(<<"L">>, <<"0", "x", "C">>)
rowHyph  == DaoToken(<<"l", "-", "w">>, <<"0", "x", "d">>)
rowLrc2  == DaoToken(<<"l">>, <<"0", "x", "d">>)
rowWSp   == DaoToken(<<"w", " ">>, <<"0", "x", "e">>)

\* rds.FindUnDeniedTokens: the lists it can return when it returns no error.
\* The rows of one list are distinct contracts: no two symbols of a table
\* share an address, and a symbol listed as token and as market has one address.
TokenSources ==
    { << >>, <<rowLrc>>, <<rowLrc, rowWeth>>, <<rowUpper, rowWeth>>,
      <<rowHyph, rowWeth>>, <<rowLrc2, rowLrc>> }

\* rds.FindUnDeniedMarkets: the lists it can return when it returns no error.
MarketSources ==
    { << >>, <<rowWeth>>, <<rowWeth, rowLrc>>, <<rowWSp>> }

\* dao.Token.ConvertUp: the row as a types.Token.
ConvertUp(v) == [Symbol |-> v.Symbol, Protocol |-> HexToAddress(v.Protocol)]

\* the zero value of types.Token, what a Go map yields for a missing key
ZeroToken == [Symbol |-> EmptyString, Protocol |-> NilAddress]

TokenPair(s, b) == [TokenS |-> s, TokenB |-> b]

----------------------------------------------------------------------------
(* Go maps                                                                 *)

EmptyMap == [k \in {} |-> ZeroToken]

Put(m, k, v) == [x \in (DOMAIN m) \cup {k} |-> IF x = k THEN v ELSE m[x]]

\* m[k] of a Go map: the zero value when the key is absent
Get(m, k) == IF k \in DOMAIN m THEN m[k] ELSE ZeroToken

\* "for _, v := range tokens { SupportTokens[v.Symbol] = token }"
RECURSIVE LoadTokens(_, _)
LoadTokens(m, rows) ==
    IF rows = << >> THEN m
    ELSE LoadTokens(Put(m, Head(rows).Symbol, ConvertUp(Head(rows))), Tail(rows))

\* "for _, v := range markets { SupportMarkets[token.Symbol] = token }"
RECURSIVE LoadMarkets(_, _)
LoadMarkets(m, rows) ==
    IF rows = << >> THEN m
    ELSE LoadMarkets(Put(m, ConvertUp(Head(rows)).Symbol, ConvertUp(Head(rows))),
                     Tail(rows))

\* The bag holding F(x) once for every x of S: what a loop over S appends.
BagOf(S, F(_)) ==
    [v \in {F(x) : x \in S} |-> Cardinality({x \in S : F(x) = v})]

----------------------------------------------------------------------------
(* state                                                                   *)

VARIABLES
    SupportTokens,   \* map[string]types.Token, token symbol to entity
    AllTokens,       \* map[string]types.Token
    SupportMarkets,  \* map[string]types.Token
    AllMarkets,      \* []string; a bag, the order of a Go map's range is unspecified
    AllTokenPairs,   \* []TokenPair; a bag, for the same reason
    aborted,         \* log.Fatalf has ended the process
    inits,           \* how many times Initialize has been called
    rds,             \* what the two sources returned to the latest Initialize
    ret,             \* the latest call of a registry function and what it returned
    protocols,       \* AbiProcessor.protocols, map[common.Address]string
    delegates,       \* AbiProcessor.delegates, map[common.Address]string
    orders,          \* the order store behind processor.db, by order hash text
    placeholder,     \* the typed payload (EventData.Event) kept for each event name
    handled,         \* the latest dispatched payload, its handler and what it returned
    published,       \* what that handler emitted, in order
    bus              \* the dispatch bus: payloads waiting, running and begun, by signature

registryVars ==
    <<SupportTokens, AllTokens, SupportMarkets, AllMarkets, AllTokenPairs,
      aborted, inits, rds, ret>>

extractorVars == <<protocols, delegates, orders, placeholder, handled, published>>

busVars == <<bus>>

vars == <<registryVars, extractorVars, busVars>>

NoSource == [tokens |-> << >>, tokErr |-> FALSE, markets |-> << >>, mktErr |-> FALSE]

NoCall ==
    [op |-> "none", a |-> EmptyString, b |-> EmptyString,
     s |-> EmptyString, t |-> EmptyString, err |-> FALSE, of |-> << >>]

----------------------------------------------------------------------------
(* the registry's functions                                                *)

IsSupportedMarket(market) == market \in DOMAIN SupportMarkets

IsSupportedToken(token) == token \in DOMAIN SupportTokens

\* WrapMarket writing the market symbol first.
WrapMarketMarketFirst(s0, b0) ==
    LET s == ToLower(s0)
        b == ToLower(b0)
    IN  IF IsSupportedMarket(s) /\ IsSupportedToken(b)
        THEN [market |-> Join(s, b), err |-> FALSE]
        ELSE IF IsSupportedMarket(b) /\ IsSupportedToken(s)
        THEN [market |-> Join(b, s), err |-> FALSE]
        ELSE [market |-> EmptyString, err |-> TRUE]

\* WrapMarket with "||" for "&&" in its second test.
WrapMarketEitherSide(s0, b0) ==
    LET s == ToLower(s0)
        b == ToLower(b0)
    IN  IF IsSupportedMarket(s) /\ IsSupportedToken(b)
        THEN [market |-> Join(b, s), err |-> FALSE]
        ELSE IF IsSupportedMarket(b) \/ IsSupportedToken(s)
        THEN [market |-> Join(s, b), err |-> FALSE]
        ELSE [market |-> EmptyString, err |-> TRUE]

WrapMarket(s0, b0) ==
    LET s == ToLower(s0)
        b == ToLower(b0)
    IN  IF IsSupportedMarket(s) /\ IsSupportedToken(b)
        THEN [market |-> Join(b, s), err |-> FALSE]
        ELSE IF IsSupportedMarket(b) /\ IsSupportedToken(s)
        THEN [market |-> Join(s, b), err |-> FALSE]
        ELSE [market |-> EmptyString, err |-> TRUE]

\* UnWrap returning the two pieces in the other order.
UnWrapSwapped(market) ==
    LET mkt == Split(TrimSpace(market))
    IN  IF Len(mkt) # 2
        THEN <<EmptyString, EmptyString>>
        ELSE <<ToLower(mkt[2]), ToLower(mkt[1])>>

UnWrap(market) ==
    LET mkt == Split(TrimSpace(market))
    IN  IF Len(mkt) # 2
        THEN <<EmptyString, EmptyString>>
        ELSE <<ToLower(mkt[1]), ToLower(mkt[2])>>

AliasToAddress(t) == Get(AllTokens, t).Protocol

\* AddressToAlias comparing t with the address's digits, not with its Hex().
AddressToAliasNoHex(t) ==
    LET hits == {k \in DOMAIN AllTokens : t = AllTokens[k].Protocol}
    IN  IF hits = {} THEN {EmptyString} ELSE hits

\* The values AddressToAlias(t) can return: the range over AllTokens returns the
\* first key it meets whose address prints as t, and meets them in no fixed order.
AddressToAlias(t) ==
    LET hits == {k \in DOMAIN AllTokens : t = Hex(AllTokens[k].Protocol)}
    IN  IF hits = {} THEN {EmptyString} ELSE hits

\* The values WrapMarketByAddress(s, b) can return.
WrapMarketByAddress(s, b) ==
    {WrapMarket(x, y) : x \in AddressToAlias(s), y \in AddressToAlias(b)}

----------------------------------------------------------------------------
(* Initialize                                                              *)

\* "for _, k := range SupportTokens { for _, kk := range SupportMarkets {...} }"
NewMarkets(tokens, markets) ==
    BagOf((DOMAIN tokens) \X (DOMAIN markets),
          LAMBDA p : Join(tokens[p[1]].Symbol, markets[p[2]].Symbol))

\* The keys pairsMap ends with.
PairKeys(tokens, markets) ==
    {Join(markets[m].Symbol, tokens[t].Symbol) :
        m \in DOMAIN markets, t \in DOMAIN tokens}
    \cup
    {Join(tokens[t].Symbol, markets[m].Symbol) :
        m \in DOMAIN markets, t \in DOMAIN tokens}

\* The values pairsMap[k] can end with: the last write to k of some iteration
\* (v, vv). An iteration writes the forward pair and then the reverse pair, so
\* its forward write is its last one to k only if its reverse key differs.
LastWrites(tokens, markets, k) ==
    {TokenPair(tokens[t].Protocol, markets[m].Protocol) :
        <<m, t>> \in {p \in (DOMAIN markets) \X (DOMAIN tokens) :
            Join(tokens[p[2]].Symbol, markets[p[1]].Symbol) = k}}
    \cup
    {TokenPair(markets[m].Protocol, tokens[t].Protocol) :
        <<m, t>> \in {p \in (DOMAIN markets) \X (DOMAIN tokens) :
            /\ Join(markets[p[1]].Symbol, tokens[p[2]].Symbol) = k
            /\ Join(tokens[p[2]].Symbol, markets[p[1]].Symbol) # k}}

\* The maps pairsMap can be after the double loop, one value for each key.
RECURSIVE PairsMaps(_, _, _)
PairsMaps(tokens, markets, keys) ==
    IF keys = {} THEN {[k \in {} |-> TokenPair(NilAddress, NilAddress)]}
    ELSE LET k == CHOOSE x \in keys : TRUE
         IN  {[x \in (DOMAIN pm) \cup {k} |-> IF x = k THEN v ELSE pm[x]] :
                 pm \in PairsMaps(tokens, markets, keys \ {k}),
                 v \in LastWrites(tokens, markets, k)}

\* "for _, v := range pairsMap { AllTokenPairs = append(AllTokenPairs, v) }"
NewTokenPairs(pm) == BagOf(DOMAIN pm, LAMBDA k : pm[k])

Initialize(tokens, tokErr, markets, mktErr) ==
    /\ ~aborted
    /\ inits < MaxInits
    /\ inits' = inits + 1
    /\ rds' = [tokens |-> tokens, tokErr |-> tokErr,
               markets |-> markets, mktErr |-> mktErr]
    /\ ret' = NoCall
    /\ UNCHANGED <<extractorVars, busVars>>
    /\ IF tokErr \/ mktErr
       THEN \* the three maps are already replaced when log.Fatalf is reached
            /\ aborted' = TRUE
            /\ SupportTokens' = EmptyMap
            /\ SupportMarkets' = EmptyMap
            /\ AllTokens' = EmptyMap
            /\ UNCHANGED <<AllMarkets, AllTokenPairs>>
       ELSE LET st == LoadTokens(EmptyMap, tokens)
                sm == LoadMarkets(EmptyMap, markets)
            IN  /\ aborted' = FALSE
                /\ SupportTokens' = st
                /\ AllTokens' = st
                /\ SupportMarkets' = sm
                /\ AllMarkets' = AllMarkets (+) NewMarkets(st, sm)
                /\ \E pm \in PairsMaps(st, sm, PairKeys(st, sm)) :
                       AllTokenPairs' = AllTokenPairs (+) NewTokenPairs(pm)

----------------------------------------------------------------------------
(* calls of the registry's functions                                       *)

\* The symbols the functions are called with: those of the rows, and one
\* that no row has.
QuerySymbols ==
    {<<"l">>, <<"w">>, <<"L">>, <<"l", "-", "w">>, <<"w", " ">>, <<"x">>}

\* The address texts AddressToAlias is called with.
QueryHex == {Hex(a) : a \in Address} \cup {<<"0", "x", "C">>}

\* Market identifiers UnWrap is called with that no WrapMarket produced.
QueryMarkets ==
    {<<"l">>, <<"l", "-", "w", "-", "w">>, <<" ", "L", "-", "W", " ">>}

CallWrapMarket(a, b) ==
    /\ ~aborted
    /\ inits > 0
    /\ ret' = [op |-> "WrapMarket", a |-> a, b |-> b,
               s |-> WrapMarket(a, b).market, t |-> EmptyString,
               err |-> WrapMarket(a, b).err, of |-> << >>]
    /\ UNCHANGED <<SupportTokens, AllTokens, SupportMarkets, AllMarkets,
                   AllTokenPairs, aborted, inits, rds>>
    /\ UNCHANGED <<extractorVars, busVars>>

\* UnWrap(market); "of" keeps the arguments of the WrapMarket call whose
\* result is unwrapped, when there is one.
CallUnWrap(market) ==
    /\ ~aborted
    /\ inits > 0
    /\ ret' = [op |-> "UnWrap", a |-> market, b |-> EmptyString,
               s |-> UnWrap(market)[1], t |-> UnWrap(market)[2], err |-> FALSE,
               of |-> IF ret.op = "WrapMarket" /\ ~ret.err /\ ret.s = market
                      THEN <<ret.a, ret.b>> ELSE << >>]
    /\ UNCHANGED <<SupportTokens, AllTokens, SupportMarkets, AllMarkets,
                   AllTokenPairs, aborted, inits, rds>>
    /\ UNCHANGED <<extractorVars, busVars>>

CallAliasToAddress(sym) ==
    /\ ~aborted
    /\ inits > 0
    /\ ret' = [op |-> "AliasToAddress", a |-> sym, b |-> EmptyString,
               s |-> AliasToAddress(sym), t |-> EmptyString, err |-> FALSE,
               of |-> << >>]
    /\ UNCHANGED <<SupportTokens, AllTokens, SupportMarkets, AllMarkets,
                   AllTokenPairs, aborted, inits, rds>>
    /\ UNCHANGED <<extractorVars, busVars>>

\* AddressToAlias(h); "of" keeps the symbol whose address h is the text of,
\* when h comes from the AliasToAddress call just made.
CallAddressToAlias(h) ==
    /\ ~aborted
    /\ inits > 0
    /\ \E alias \in AddressToAlias(h) :
           ret' = [op |-> "AddressToAlias", a |-> h, b |-> EmptyString,
                   s |-> alias, t |-> EmptyString, err |-> FALSE,
                   of |-> IF ret.op = "AliasToAddress" /\ Hex(ret.s) = h
                          THEN <<ret.a>> ELSE << >>]
    /\ UNCHANGED <<SupportTokens, AllTokens, SupportMarkets, AllMarkets,
                   AllTokenPairs, aborted, inits, rds>>
    /\ UNCHANGED <<extractorVars, busVars>>

----------------------------------------------------------------------------
(* prices                                                                  *)

Digits == <<"0", "1", "2", "3", "4", "5", "6", "7", "8", "9">>

DigitValue(c) == (CHOOSE i \in 1..10 : Digits[i] = c) - 1

\* big.Int.MarshalText: the decimal text of a non-negative integer.
RECURSIVE MarshalText(_)
MarshalText(n) ==
    IF n < 10 THEN <<Digits[n + 1]>>
    ELSE MarshalText(n \div 10) \o <<Digits[(n % 10) + 1]>>

\* big.Int.UnmarshalText of a decimal text: the integer it writes; a text
\* that is no number leaves the zero value.
RECURSIVE UnmarshalDigits(_, _)
UnmarshalDigits(text, acc) ==
    IF text = << >> THEN acc
    ELSE UnmarshalDigits(Tail(text), 10 * acc + DigitValue(Head(text)))

UnmarshalText(text) ==
    IF text = << >> \/ \E i \in 1..Len(text) : \A d \in 1..10 : Digits[d] # text[i]
    THEN 0
    ELSE UnmarshalDigits(text, 0)

\* big.Int.Int64: the low bits of x as a two's-complement integer.
Int64(x) ==
    LET low == x % (2 ^ Int64Bits)
    IN  IF low >= 2 ^ (Int64Bits - 1) THEN low - 2 ^ Int64Bits ELSE low

\* The raw amounts priced: small ones, and those around the two powers of two
\* where an int64 changes sign and where it wraps.
RawAmounts ==
    {0, 1, 2, 6, 2 ^ (Int64Bits - 1) - 1, 2 ^ (Int64Bits - 1),
     2 ^ Int64Bits - 1, 2 ^ Int64Bits, 2 ^ Int64Bits + 2}

AmountTexts == {MarshalText(n) : n \in RawAmounts} \cup {EmptyString}

\* ByteToFloat(amount), counted in units of 1/weiToEther: the float64 is this
\* many base units over 1e18.
ByteToFloat(amount) == Int64(UnmarshalText(amount))

\* A float64 quotient x / y of two such amounts, kept as the fraction; the
\* unit cancels. A zero denominator is the infinity or NaN of the division.
Quotient(x, y) == [num |-> x, den |-> y]

FloatZero == [num |-> 0, den |-> 1]

\* The values IsBuy(s) can return: AddressToAlias meets its rows in no order.
IsBuy(s) ==
    {alias \in DOMAIN SupportTokens :
        alias \in (IF IsAddress(s) THEN AddressToAlias(s) ELSE {s})} # {}

\* CalculatePrice without its test for a zero amount.
CalculatePriceUnchecked(amountS, amountB, s, b) ==
    LET as == ByteToFloat(amountS)
        ab == ByteToFloat(amountB)
    IN  IF IsBuy(s) THEN Quotient(ab, as) ELSE Quotient(as, ab)

CalculatePrice(amountS, amountB, s, b) ==
    LET as == ByteToFloat(amountS)
        ab == ByteToFloat(amountB)
    IN  IF as = 0 \/ ab = 0 THEN FloatZero
        ELSE IF IsBuy(s) THEN Quotient(ab, as)
        ELSE Quotient(as, ab)

\* The token identifiers CalculatePrice is called with: two symbols and two
\* addresses, of each one a supported token's.
PriceTokens == {<<"l">>, <<"x">>, <<"0", "x", "a">>, <<"0", "x", "1">>}

CallCalculatePrice(amountS, amountB, s, b) ==
    /\ ~aborted
    /\ inits > 0
    /\ ret' = [op |-> "CalculatePrice", a |-> amountS, b |-> amountB,
               s |-> s, t |-> b, err |-> FALSE, of |-> << >>,
               as |-> ByteToFloat(amountS), ab |-> ByteToFloat(amountB),
               price |-> CalculatePrice(amountS, amountB, s, b)]
    /\ UNCHANGED <<SupportTokens, AllTokens, SupportMarkets, AllMarkets,
                   AllTokenPairs, aborted, inits, rds>>
    /\ UNCHANGED <<extractorVars, busVars>>

----------------------------------------------------------------------------
(* the extractor's ABI processor                                           *)

\* common.HexToHash: as HexToAddress, for a common.Hash.
HexToHash(h) == HexToAddress(h)

\* The deployment ethaccessor.ProtocolAddresses() lists.
ContractAddress      == <<"c">>
TokenRegistryAddress == <<"d">>
DelegateAddress      == <<"e">>

\* The orders in the store: their hashes, and for each its dao row.
OrderHash1 == <<"1">>
OrderHash2 == <<"2">>
OrderStore ==
    [h \in {Hex(OrderHash1), Hex(OrderHash2)} |->
        IF h = Hex(OrderHash1)
        THEN [TokenS |-> <<"0", "x", "a">>, TokenB |-> <<"0", "x", "b">>,
              Owner |-> <<"0", "x", "1">>]
        ELSE [TokenS |-> <<"0", "x", "b">>, TokenB |-> <<"0", "x", "a">>,
              Owner |-> <<"0", "x", "2">>]]

\* An order hash the store has no order for.
UnknownOrderHash == <<"d">>

\* loadProtocolAddress: every token of util.AllTokens, then the deployment.
LoadedProtocols(allTokens) ==
    [a \in {allTokens[k].Protocol : k \in DOMAIN allTokens}
           \cup {ContractAddress, TokenRegistryAddress, DelegateAddress} |->
        IF a = DelegateAddress THEN "transfer_delegate"
        ELSE IF a = TokenRegistryAddress THEN "token_register"
        ELSE IF a = ContractAddress THEN "loopring"
        ELSE (CHOOSE k \in DOMAIN allTokens : allTokens[k].Protocol = a)]

LoadedDelegates == [a \in {DelegateAddress} |-> "transfer_delegate"]

HasContract(protocol) == protocol \in DOMAIN protocols

HasSpender(spender) == spender \in DOMAIN delegates

\* The names of the events whose handler writes into the typed payload.
EventNames ==
    {"RingMined", "OrderCancelled", "AllOrdersCancelled", "OrdersCancelled",
     "Transfer", "Approval", "AddressAuthorized", "AddressDeauthorized"}

\* The typed payloads as loadXxxContract creates them: every field zero. Only
\* the fields a handler writes are kept.
NewPlaceholders ==
    [n \in EventNames |->
        CASE n = "RingMined" -> [RingHash |-> NilAddress]
          [] n = "OrderCancelled" -> [OrderHash |-> NilAddress]
          [] n = "AllOrdersCancelled" -> [Owner |-> NilAddress]
          [] n = "OrdersCancelled" -> [Owner |-> NilAddress]
          [] n = "Transfer" -> [From |-> NilAddress, To |-> NilAddress]
          [] n = "Approval" -> [Owner |-> NilAddress, Spender |-> NilAddress]
          [] n = "AddressAuthorized" -> [ContractAddress |-> NilAddress]
          [] n = "AddressDeauthorized" -> [ContractAddress |-> NilAddress]]

\* GetEvent for the signature of the event named n: a copy of the stored
\* EventData, whose Event is the pointer loadXxxContract stored, so the typed
\* payload it reaches is the one every earlier handler wrote into.
GetEvent(n) == [Name |-> n, Event |-> placeholder[n]]

NoDispatch ==
    [handler |-> "none", topics |-> << >>, fills |-> << >>,
     convErr |-> FALSE, dbErr |-> FALSE, ret |-> "none"]

\* What a handler leaves in "handled": it returned nil.
Handled(name, topics) ==
    [handler |-> name, topics |-> topics, fills |-> << >>,
     convErr |-> FALSE, dbErr |-> FALSE, ret |-> "nil"]

\* eventemitter.Emit(topic, data), appended to what the handler has emitted.
Emit(out, topic, data) == Append(out, [topic |-> topic, data |-> data])

\* The topic lists of a dispatched log: Topics[0] is the event's signature,
\* Topics[1] an indexed hash or owner, the later ones an indexed address.
SignatureTopic == <<"s">>
Topic1Values == {Hex(OrderHash1)}
Topic2Values == {Hex(DelegateAddress), <<"0", "x", "b">>}
TopicLists ==
    UNION {{t \in [1..n -> {SignatureTopic} \cup Topic1Values \cup Topic2Values] :
               \A i \in 1..n :
                   /\ (i = 1) => t[i] = SignatureTopic
                   /\ (i = 2) => t[i] \in Topic1Values
                   /\ (i > 2) => t[i] \in Topic2Values} : n \in 0..MaxTopics}

\* The order hashes of a ring-mined event's fills.
FillHashes == {OrderHash1, OrderHash2, UnknownOrderHash}
FillLists == UNION {[1..n -> FillHashes] : n \in 0..MaxFills}

\* ethaccessor.RingMinedEvent.ConvertDown: one fill for each order of the
\* event, with the ring's hash and nothing of the order but its hash.
NewFill(ringhash, orderhash) ==
    [Ringhash |-> ringhash, OrderHash |-> orderhash,
     TokenS |-> NilAddress, TokenB |-> NilAddress, Owner |-> NilAddress,
     Market |-> EmptyString, SellTo |-> NilAddress, BuyFrom |-> NilAddress]

\* processor.db.GetOrdersByHash(orderhashList) when it returns no error.
GetOrdersByHash(orderhashList) ==
    [h \in {orderhashList[i] : i \in 1..Len(orderhashList)} \cap DOMAIN orders |->
        orders[h]]

\* The fills a fill can be after the first loop over fillList: with the
\* order's tokens, owner and market when ordermap has its hash, else unchanged.
FillsAfterLookup(v, ordermap) ==
    IF Hex(v.OrderHash) \in DOMAIN ordermap
    THEN LET ord == ordermap[Hex(v.OrderHash)]
         IN  {[v EXCEPT !.TokenS = HexToAddress(ord.TokenS),
                        !.TokenB = HexToAddress(ord.TokenB),
                        !.Owner = HexToAddress(ord.Owner),
                        !.Market = w.market] :
                 w \in WrapMarketByAddress(Hex(HexToAddress(ord.TokenB)),
                                           Hex(HexToAddress(ord.TokenS)))}
    ELSE {v}

\* The lists fillList can be after the first loop.
RECURSIVE LookupAll(_, _)
LookupAll(fills, ordermap) ==
    IF fills = << >> THEN {<< >>}
    ELSE {<<v>> \o rest : v \in FillsAfterLookup(Head(fills), ordermap),
                          rest \in LookupAll(Tail(fills), ordermap)}

\* The first loop's emissions: each fill whose order was found, in order.
RECURSIVE EmitMatched(_, _, _)
EmitMatched(out, fillList, ordermap) ==
    IF fillList = << >> THEN out
    ELSE EmitMatched(
             IF Hex(Head(fillList).OrderHash) \in DOMAIN ordermap
             THEN Emit(out, "OrderManagerExtractorFill", Head(fillList))
             ELSE out,
             Tail(fillList), ordermap)

\* The second loop: fill i sells to the owner of fill i+1 and buys from the
\* owner of fill i-1 of fillList, around the ring.
WithCounterparties(fillList) ==
    LET length == Len(fillList)
    IN  [i \in 1..length |->
            [fillList[i] EXCEPT
                !.SellTo = IF i = length THEN fillList[1].Owner
                           ELSE fillList[i + 1].Owner,
                !.BuyFrom = IF i = 1 THEN fillList[length].Owner
                            ELSE fillList[i - 1].Owner]]

RECURSIVE EmitAll(_, _, _)
EmitAll(out, topic, list) ==
    IF list = << >> THEN out
    ELSE EmitAll(Emit(out, topic, Head(list)), topic, Tail(list))

\* handleRingMinedEvent as it would be if it looked the orders up before it
\* emitted the ring: a failing store leaves nothing published.
handleRingMinedEventLookupFirst(topics, hashes, convErr, dbErr) ==
    /\ UNCHANGED <<busVars, registryVars, protocols, delegates, orders>>
    /\ handled' = [handler |-> "handleRingMinedEvent", topics |-> topics,
                   fills |-> hashes, convErr |-> convErr, dbErr |-> dbErr,
                   ret |-> "nil"]
    /\ IF Len(topics) < 2
       THEN /\ published' = << >>
            /\ UNCHANGED placeholder
       ELSE LET ringhash == HexToHash(topics[2])
                fills == [i \in 1..Len(hashes) |-> NewFill(ringhash, hashes[i])]
                orderhashList == [i \in 1..Len(fills) |-> Hex(fills[i].OrderHash)]
                ordermap == GetOrdersByHash(orderhashList)
            IN  /\ placeholder' =
                       [placeholder EXCEPT !["RingMined"].RingHash = ringhash]
                /\ IF convErr \/ dbErr
                   THEN published' = << >>
                   ELSE \E fillList \in LookupAll(fills, ordermap) :
                            published' =
                                EmitAll(EmitMatched(
                                            Emit(<< >>,
                                                 "OrderManagerExtractorRingMined",
                                                 [Ringhash |-> ringhash]),
                                            fillList, ordermap),
                                        "TxManagerOrderFilledEvent",
                                        WithCounterparties(fillList))

\* handleRingMinedEvent for a log with these topics whose unpacked data lists
\* the orders hashes; convErr: ConvertDown fails; dbErr: GetOrdersByHash fails.
handleRingMinedEvent(topics, hashes, convErr, dbErr) ==
    /\ UNCHANGED <<busVars, registryVars, protocols, delegates, orders>>
    /\ handled' = [handler |-> "handleRingMinedEvent", topics |-> topics,
                   fills |-> hashes, convErr |-> convErr, dbErr |-> dbErr,
                   ret |-> "nil"]
    /\ IF Len(topics) < 2
       THEN /\ published' = << >>
            /\ UNCHANGED placeholder
       ELSE LET ringhash == HexToHash(topics[2])
                ringmined == [Ringhash |-> ringhash]
                fills == [i \in 1..Len(hashes) |-> NewFill(ringhash, hashes[i])]
                orderhashList == [i \in 1..Len(fills) |-> Hex(fills[i].OrderHash)]
                ordermap == GetOrdersByHash(orderhashList)
                summary == Emit(<< >>, "OrderManagerExtractorRingMined", ringmined)
            IN  /\ placeholder' =
                       [placeholder EXCEPT !["RingMined"].RingHash = ringhash]
                /\ IF convErr
                   THEN published' = << >>
                   ELSE IF dbErr
                   THEN published' = summary
                   ELSE \E fillList \in LookupAll(fills, ordermap) :
                            published' =
                                EmitAll(EmitMatched(summary, fillList, ordermap),
                                        "TxManagerOrderFilledEvent",
                                        WithCounterparties(fillList))

handleOrderCancelledEvent(topics) ==
    /\ UNCHANGED <<busVars, registryVars, protocols, delegates, orders>>
    /\ handled' = Handled("handleOrderCancelledEvent", topics)
    /\ IF Len(topics) < 2
       THEN /\ published' = << >>
            /\ UNCHANGED placeholder
       ELSE LET evt == [OrderHash |-> HexToHash(topics[2])]
            IN  /\ placeholder' = [placeholder EXCEPT
                       !["OrderCancelled"].OrderHash = HexToHash(topics[2])]
                /\ published' =
                       Emit(Emit(<< >>, "OrderManagerExtractorCancel", evt),
                            "TxManagerOrderCancelledEvent", evt)

handleCutoffEvent(topics) ==
    /\ UNCHANGED <<busVars, registryVars, protocols, delegates, orders>>
    /\ handled' = Handled("handleCutoffEvent", topics)
    /\ IF Len(topics) < 2
       THEN /\ published' = << >>
            /\ UNCHANGED placeholder
       ELSE LET evt == [Owner |-> HexToAddress(topics[2])]
            IN  /\ placeholder' = [placeholder EXCEPT
                       !["AllOrdersCancelled"].Owner = HexToAddress(topics[2])]
                /\ published' =
                       Emit(Emit(<< >>, "OrderManagerExtractorCutoff", evt),
                            "TxManagerCutoffAllEvent", evt)

handleCutoffPairEvent(topics) ==
    /\ UNCHANGED <<busVars, registryVars, protocols, delegates, orders>>
    /\ handled' = Handled("handleCutoffPairEvent", topics)
    /\ IF Len(topics) < 2
       THEN /\ published' = << >>
            /\ UNCHANGED placeholder
       ELSE LET evt == [Owner |-> HexToAddress(topics[2])]
            IN  /\ placeholder' = [placeholder EXCEPT
                       !["OrdersCancelled"].Owner = HexToAddress(topics[2])]
                /\ published' =
                       Emit(Emit(<< >>, "OrderManagerExtractorCutoffPair", evt),
                            "TxManagerCutoffPairEvent", evt)

\* handleTransferEvent without its test of the number of topics: a missing
\* topic reads as the empty text.
handleTransferEventUnchecked(topics) ==
    /\ UNCHANGED <<busVars, registryVars, protocols, delegates, orders>>
    /\ handled' = Handled("handleTransferEvent", topics)
    /\ LET from == HexToAddress(IF Len(topics) >= 2 THEN topics[2] ELSE EmptyString)
           to == HexToAddress(IF Len(topics) >= 3 THEN topics[3] ELSE EmptyString)
           transfer == [Sender |-> from, Receiver |-> to]
       IN  /\ placeholder' = [placeholder EXCEPT !["Transfer"].From = from,
                                                 !["Transfer"].To = to]
           /\ published' =
                  Emit(Emit(<< >>, "AccountTransfer", transfer),
                       "TxManagerTransferEvent", transfer)

handleTransferEvent(topics) ==
    /\ UNCHANGED <<busVars, registryVars, protocols, delegates, orders>>
    /\ handled' = Handled("handleTransferEvent", topics)
    /\ IF Len(topics) < 3
       THEN /\ published' = << >>
            /\ UNCHANGED placeholder
       ELSE LET from == HexToAddress(topics[2])
                to == HexToAddress(topics[3])
                transfer == [Sender |-> from, Receiver |-> to]
            IN  /\ placeholder' = [placeholder EXCEPT !["Transfer"].From = from,
                                                      !["Transfer"].To = to]
                /\ published' =
                       Emit(Emit(<< >>, "AccountTransfer", transfer),
                            "TxManagerTransferEvent", transfer)

handleApprovalEvent(topics) ==
    /\ UNCHANGED <<busVars, registryVars, protocols, delegates, orders>>
    /\ handled' = Handled("handleApprovalEvent", topics)
    /\ IF Len(topics) < 3
       THEN /\ published' = << >>
            /\ UNCHANGED placeholder
       ELSE LET owner == HexToAddress(topics[2])
                spender == HexToAddress(topics[3])
                evt == [Owner |-> owner, Spender |-> spender]
            IN  /\ placeholder' = [placeholder EXCEPT !["Approval"].Owner = owner,
                                                      !["Approval"].Spender = spender]
                /\ published' =
                       Emit(IF HasSpender(evt.Spender)
                            THEN Emit(<< >>, "AccountApproval", evt)
                            ELSE << >>,
                            "TxManagerApproveEvent", evt)

handleTokenRegisteredEvent(topics) ==
    /\ UNCHANGED <<busVars, registryVars, protocols, delegates, orders, placeholder>>
    /\ handled' = Handled("handleTokenRegisteredEvent", topics)
    /\ published' = Emit(<< >>, "TokenRegistered", [Symbol |-> EmptyString])

handleTokenUnRegisteredEvent(topics) ==
    /\ UNCHANGED <<busVars, registryVars, protocols, delegates, orders, placeholder>>
    /\ handled' = Handled("handleTokenUnRegisteredEvent", topics)
    /\ published' = Emit(<< >>, "TokenUnRegistered", [Symbol |-> EmptyString])

handleAddressAuthorizedEvent(topics) ==
    /\ UNCHANGED <<busVars, registryVars, protocols, delegates, orders>>
    /\ handled' = Handled("handleAddressAuthorizedEvent", topics)
    /\ IF Len(topics) < 2
       THEN /\ published' = << >>
            /\ UNCHANGED placeholder
       ELSE LET evt == [Protocol |-> HexToAddress(topics[2]), Deauthorized |-> FALSE]
            IN  /\ placeholder' = [placeholder EXCEPT
                       !["AddressAuthorized"].ContractAddress =
                           HexToAddress(topics[2])]
                /\ published' = Emit(<< >>, "AddressAuthorized", evt)

handleAddressDeAuthorizedEvent(topics) ==
    /\ UNCHANGED <<busVars, registryVars, protocols, delegates, orders>>
    /\ handled' = Handled("handleAddressDeAuthorizedEvent", topics)
    /\ IF Len(topics) < 2
       THEN /\ published' = << >>
            /\ UNCHANGED placeholder
       ELSE LET evt == [Protocol |-> HexToAddress(topics[2]), Deauthorized |-> TRUE]
            IN  /\ placeholder' = [placeholder EXCEPT
                       !["AddressDeauthorized"].ContractAddress =
                           HexToAddress(topics[2])]
                /\ published' = Emit(<< >>, "AddressAuthorized", evt)

handleWethDepositEvent(topics) ==
    /\ UNCHANGED <<busVars, registryVars, protocols, delegates, orders, placeholder>>
    /\ handled' = Handled("handleWethDepositEvent", topics)
    /\ IF Len(topics) < 2
       THEN published' = << >>
       ELSE LET evt == [Owner |-> HexToAddress(topics[2])]
            IN  published' =
                    Emit(Emit(<< >>, "WethDepositEvent", evt),
                         "TxManagerWethDepositEvent", evt)

handleWethWithdrawalEvent(topics) ==
    /\ UNCHANGED <<busVars, registryVars, protocols, delegates, orders, placeholder>>
    /\ handled' = Handled("handleWethWithdrawalEvent", topics)
    /\ IF Len(topics) < 2
       THEN published' = << >>
       ELSE LET evt == [Owner |-> HexToAddress(topics[2])]
            IN  published' =
                    Emit(Emit(<< >>, "WethWithdrawalEvent", evt),
                         "TxManagerWethWithdrawalEvent", evt)

----------------------------------------------------------------------------
(* the method handlers                                                     *)

\* The characters hexutil.MustDecode accepts after the 0x prefix.
HexChars ==
    {"0", "1", "2", "3", "4", "5", "6", "7", "8", "9",
     "a", "b", "c", "d", "e", "f", "A", "B", "C", "D", "E", "F"}

\* A transaction's input up to its argument data: "0x" and the four bytes of
\* the method's selector, ten characters.
SelectorPrefix == <<"0", "x", "a", "9", "0", "5", "9", "c", "b", "b">>

\* The input data of the transactions dispatched to the method handlers: none,
\* the bare prefix "0x", the selector alone, the selector with one byte of
\* argument data, with half a byte, and with two characters that are not hex.
MethodInputs ==
    {EmptyString,
     <<"0", "x">>,
     SelectorPrefix,
     SelectorPrefix \o <<"0", "b">>,
     SelectorPrefix \o <<"0", "e">>,
     SelectorPrefix \o <<"0", "E">>,
     SelectorPrefix \o <<"0">>,
     SelectorPrefix \o <<"z", "z">>}

TxStatuses == {"TX_STATUS_SUCCESS", "TX_STATUS_FAILED", "TX_STATUS_PENDING"}

TxSenders == {<<"1">>, <<"2">>}

MethodData(name, input, status, from) ==
    [Name |-> name, Input |-> input, Status |-> status, From |-> from]

MethodDatas(name) ==
    {MethodData(name, input, status, from) :
        input \in MethodInputs, status \in TxStatuses, from \in TxSenders}

\* MethodData.IsValid: an error exactly for a failed transaction.
IsValid(m) == IF m.Status = "TX_STATUS_FAILED" THEN "failed" ELSE "nil"

\* hexutil.MustDecode("0x" + contract.Input[10:]): the slice expression panics
\* on an input shorter than ten characters, MustDecode on an odd number of
\* characters and on one that is no hex digit; else the bytes, each a pair of
\* characters.
MustDecodeInput(input) ==
    IF Len(input) < 10 THEN [panic |-> TRUE, data |-> << >>]
    ELSE LET text == SubSeq(input, 11, Len(input))
         IN  IF Len(text) % 2 = 1 \/ \E i \in 1..Len(text) : text[i] \notin HexChars
             THEN [panic |-> TRUE, data |-> << >>]
             ELSE [panic |-> FALSE,
                   data |-> [i \in 1..(Len(text) \div 2) |->
                                <<text[2 * i - 1], text[2 * i]>>]]

\* CAbi.UnpackMethodInput for a method of one argument, a word standing at one
\* byte: an error when the data has no word, else the word's low half byte.
UnpackMethodInput(data) ==
    IF Len(data) < 1 THEN [err |-> TRUE, value |-> NilAddress]
    ELSE [err |-> FALSE, value |-> HexToAddress(<<"0", "x", data[1][2]>>)]

\* What a method handler leaves in "handled".
HandledMethod(name, m, outcome) ==
    [handler |-> name, method |-> m, ret |-> outcome]

\* The processor takes payloads until a handler has panicked.
Running == handled.ret # "panic"

\* A method handler that decodes its input: panics in MustDecode, returns nil
\* without a publication when the unpacking fails, else publishes Events(value).
DecodingHandler(name, m, Events(_)) ==
    /\ Running
    /\ UNCHANGED <<busVars, registryVars, protocols, delegates, orders, placeholder>>
    /\ LET decoded == MustDecodeInput(m.Input)
           unpacked == UnpackMethodInput(decoded.data)
       IN  IF decoded.panic
           THEN /\ handled' = HandledMethod(name, m, "panic")
                /\ published' = << >>
           ELSE /\ handled' = HandledMethod(name, m, "nil")
                /\ published' = IF unpacked.err THEN << >>
                                ELSE Events(unpacked.value)

\* handleSubmitRingMethod as it would be if it unpacked the ring from the
\* method's input before it notified the miner.
handleSubmitRingMethodDecoding(m) ==
    DecodingHandler("handleSubmitRingMethod", m,
        LAMBDA v : Emit(<< >>, "Miner_SubmitRing_Method", [Err |-> IsValid(m)]))

handleSubmitRingMethod(m) ==
    /\ Running
    /\ UNCHANGED <<busVars, registryVars, protocols, delegates, orders, placeholder>>
    /\ handled' = HandledMethod("handleSubmitRingMethod", m, "nil")
    /\ published' = Emit(<< >>, "Miner_SubmitRing_Method", [Err |-> IsValid(m)])

handleCancelOrderMethod(m) ==
    DecodingHandler("handleCancelOrderMethod", m,
        LAMBDA v : Emit(<< >>, "OrderCanceled", [OrderHash |-> v]))

handleCutoffMethod(m) ==
    DecodingHandler("handleCutoffMethod", m,
        LAMBDA v : Emit(<< >>, "TxManagerCutoffAllMethod",
                        [Owner |-> m.From, Value |-> v]))

handleCutoffPairMethod(m) ==
    DecodingHandler("handleCutoffPairMethod", m,
        LAMBDA v : Emit(<< >>, "TxManagerCutoffPairMethod",
                        [Owner |-> m.From, Value |-> v]))

handleApproveMethod(m) ==
    DecodingHandler("handleApproveMethod", m,
        LAMBDA v : LET approve == [Owner |-> m.From, Spender |-> v]
                   IN  Emit(IF HasSpender(approve.Spender)
                            THEN Emit(<< >>, "ApproveMethod", approve)
                            ELSE << >>,
                            "TxManagerApproveMethod", approve))

handleTransferMethod(m) ==
    DecodingHandler("handleTransferMethod", m,
        LAMBDA v : Emit(<< >>, "TxManagerTransferMethod",
                        [Sender |-> m.From, Receiver |-> v]))

handleWethDepositMethod(m) ==
    /\ Running
    /\ UNCHANGED <<busVars, registryVars, protocols, delegates, orders, placeholder>>
    /\ handled' = HandledMethod("handleWethDepositMethod", m, "nil")
    /\ LET deposit == [Owner |-> m.From]
       IN  published' = Emit(Emit(<< >>, "WethDepositMethod", deposit),
                             "TxManagerWethDepositMethod", deposit)

handleWethWithdrawalMethod(m) ==
    DecodingHandler("handleWethWithdrawalMethod", m,
        LAMBDA v : LET withdrawal == [Owner |-> m.From, Value |-> v]
                   IN  Emit(Emit(<< >>, "WethWithdrawalMethod", withdrawal),
                            "TxManagerWethWithdrawalMethod", withdrawal))

----------------------------------------------------------------------------
(* plain transfers of the native currency                                  *)

\* The transactions classified: sent to a token contract (written in either
\* case), to the protocol's contract, to two ordinary accounts, or to nobody.
TxRecipients ==
    {<<"0", "x", "a">>, <<"0", "x", "A">>, <<"0", "x", "c">>,
     <<"0", "x", "1">>, <<"0", "x", "2">>, EmptyString}

TxValues == {0, 1, 2}

Transactions ==
    [From : {Hex(a) : a \in TxSenders}, To : TxRecipients, Value : TxValues]

\* The sets of accounts the account manager can hold unlocked.
UnlockedSets == SUBSET TxSenders

\* accountmanager.HasUnlocked(address), the set being the manager's wallets.
HasUnlocked(unlocked, address) == HexToAddress(address) \in unlocked

\* IsValidEthTransferTransaction without its test of the value.
IsValidEthTransferTransactionAnyValue(tx, unlocked) ==
    IF HasContract(HexToAddress(tx.To)) THEN FALSE
    ELSE IF ~HasUnlocked(unlocked, tx.From) /\ ~HasUnlocked(unlocked, tx.To)
    THEN FALSE
    ELSE TRUE

IsValidEthTransferTransaction(tx, unlocked) ==
    IF HasContract(HexToAddress(tx.To)) THEN FALSE
    ELSE IF tx.Value <= 0 THEN FALSE
    ELSE IF ~HasUnlocked(unlocked, tx.From) /\ ~HasUnlocked(unlocked, tx.To)
    THEN FALSE
    ELSE TRUE

\* A call of IsValidEthTransferTransaction: a query, it publishes nothing.
CallIsValidEthTransferTransaction(tx, unlocked) ==
    /\ UNCHANGED <<busVars, registryVars, protocols, delegates, orders, placeholder>>
    /\ handled' = [handler |-> "IsValidEthTransferTransaction", tx |-> tx,
                   unlocked |-> unlocked,
                   ret |-> IsValidEthTransferTransaction(tx, unlocked)]
    /\ published' = << >>

handleEthTransfer(tx) ==
    /\ UNCHANGED <<busVars, registryVars, protocols, delegates, orders, placeholder>>
    /\ handled' = [handler |-> "handleEthTransfer", tx |-> tx, ret |-> "nil"]
    /\ published' =
           Emit(<< >>, "TxManagerEthTransferEvent",
                [From |-> HexToAddress(tx.From), To |-> HexToAddress(tx.To),
                 Value |-> tx.Value, Symbol |-> <<"E", "T", "H">>,
                 Protocol |-> NilAddress,
                 Sender |-> HexToAddress(tx.From),
                 Receiver |-> HexToAddress(tx.To)])

----------------------------------------------------------------------------
(* the list of fork events                                                 *)

InnerForkEvent(blockNumber, logIndex) ==
    [BlockNumber |-> blockNumber, LogIndex |-> logIndex]

ForkEvents ==
    {InnerForkEvent(n, i) : n \in {32, 35}, i \in {2, 3, 4}}

ForkEventLists == UNION {[1..n -> ForkEvents] : n \in 0..MaxForkEvents}

\* InnerForkEventList.Less ordering by the block number alone.
LessByBlock(list, i, j) == list[i].BlockNumber < list[j].BlockNumber

\* InnerForkEventList.Less: by block number, then by log index.
Less(list, i, j) ==
    IF list[i].BlockNumber = list[j].BlockNumber
    THEN list[i].LogIndex < list[j].LogIndex
    ELSE list[i].BlockNumber < list[j].BlockNumber

\* InnerForkEventList.Swap.
Swap(list, i, j) == [list EXCEPT ![i] = list[j], ![j] = list[i]]

\* sort.Sort on a list this short is an insertion sort: element i sinks while
\* it is less than the one before it.
RECURSIVE Sink(_, _)
Sink(list, j) ==
    IF j > 1 /\ Less(list, j, j - 1)
    THEN Sink(Swap(list, j, j - 1), j - 1)
    ELSE list

RECURSIVE InsertionSort(_, _)
InsertionSort(list, i) ==
    IF i > Len(list) THEN list
    ELSE InsertionSort(Sink(list, i), i + 1)

Sort(list) == InsertionSort(list, 2)

CallSort(list) ==
    /\ UNCHANGED <<busVars, registryVars, protocols, delegates, orders, placeholder,
                   published>>
    /\ handled' = [handler |-> "sort.Sort", list |-> list, ret |-> Sort(list)]

----------------------------------------------------------------------------
(* the dispatch bus                                                        *)

\* The names of the events and of the methods the processor subscribes to.
EventSubscriptions ==
    {"RingMined", "OrderCancelled", "AllOrdersCancelled", "OrdersCancelled",
     "TokenRegistered", "TokenUnregistered", "AddressAuthorized",
     "AddressDeauthorized", "Transfer", "Approval", "Deposit", "Withdrawal"}

MethodSubscriptions ==
    {"submitRing", "cancelOrder", "cancelAllOrders",
     "cancelAllOrdersByTradingPair", "deposit", "withdraw", "approve",
     "transfer"}

Subscriptions == EventSubscriptions \cup MethodSubscriptions

\* The watchers were every subscription registered as concurrent.
WatchersConcurrent == [sig \in Subscriptions |-> [Concurrent |-> TRUE]]

\* The watcher each loadXxxContract registers with eventemitter.On.
Watchers == [sig \in Subscriptions |-> [Concurrent |-> FALSE]]

\* The bus before any dispatch; payloads are numbered as they are dispatched.
NoBus ==
    [next |-> 1,
     queue |-> [sig \in Subscriptions |-> << >>],
     running |-> [sig \in Subscriptions |-> {}],
     started |-> [sig \in Subscriptions |-> << >>]]

\* The signatures of the payloads dispatched.
DispatchedSignatures == {"RingMined", "Transfer", "submitRing"}

RemoveAt(q, i) == SubSeq(q, 1, i - 1) \o SubSeq(q, i + 1, Len(q))

\* A payload is dispatched to the subscription of its signature.
Dispatch(sig) ==
    /\ bus.next <= MaxDispatch
    /\ bus' = [bus EXCEPT !.next = @ + 1,
                          !.queue[sig] = Append(@, bus.next)]
    /\ UNCHANGED <<registryVars, extractorVars>>

\* The bus begins a handler: of a concurrent watcher for any waiting payload,
\* of the others for the oldest, once the handler before it has returned.
Begin(sig) ==
    /\ bus.queue[sig] # << >>
    /\ \E i \in 1..Len(bus.queue[sig]) :
           /\ IF Watchers[sig].Concurrent THEN TRUE
              ELSE i = 1 /\ bus.running[sig] = {}
           /\ bus' = [bus EXCEPT
                  !.queue[sig] = RemoveAt(@, i),
                  !.running[sig] = @ \cup {bus.queue[sig][i]},
                  !.started[sig] = Append(@, bus.queue[sig][i])]
    /\ UNCHANGED <<registryVars, extractorVars>>

\* A handler returns.
Complete(sig) ==
    /\ \E id \in bus.running[sig] :
           bus' = [bus EXCEPT !.running[sig] = @ \ {id}]
    /\ UNCHANGED <<registryVars, extractorVars>>

----------------------------------------------------------------------------
(* the registry's specification                                            *)

Init ==
    /\ SupportTokens = EmptyMap
    /\ AllTokens = EmptyMap
    /\ SupportMarkets = EmptyMap
    /\ AllMarkets = EmptyBag
    /\ AllTokenPairs = EmptyBag
    /\ aborted = FALSE
    /\ inits = 0
    /\ rds = NoSource
    /\ ret = NoCall
    /\ protocols = LoadedProtocols(EmptyMap)
    /\ delegates = LoadedDelegates
    /\ orders = OrderStore
    /\ placeholder = NewPlaceholders
    /\ handled = NoDispatch
    /\ published = << >>
    /\ bus = NoBus

Next ==
    \/ \E tokens \in TokenSources, markets \in MarketSources :
           Initialize(tokens, FALSE, markets, FALSE)
    \/ \E markets \in MarketSources : Initialize(<< >>, TRUE, markets, FALSE)
    \/ \E tokens \in TokenSources : Initialize(tokens, FALSE, << >>, TRUE)
    \/ \E a \in QuerySymbols, b \in QuerySymbols : CallWrapMarket(a, b)
    \/ \E m \in QueryMarkets \cup
                 (IF ret.op = "WrapMarket" /\ ~ret.err THEN {ret.s} ELSE {}) :
           CallUnWrap(m)
    \/ \E sym \in QuerySymbols : CallAliasToAddress(sym)
    \/ \E h \in QueryHex \cup
                 (IF ret.op = "AliasToAddress" THEN {Hex(ret.s)} ELSE {}) :
           CallAddressToAlias(h)

Spec == Init /\ [][Next]_vars

----------------------------------------------------------------------------
(* the extractor's specifications                                          *)

\* The processor is built by newAbiProcessor after util.Initialize has loaded
\* the tokens l and w and the market w.
InitExtractor ==
    LET st == LoadTokens(EmptyMap, <<rowLrc, rowWeth>>)
        sm == LoadMarkets(EmptyMap, <<rowWeth>>)
    IN  /\ SupportTokens = st
        /\ AllTokens = st
        /\ SupportMarkets = sm
        /\ AllMarkets = NewMarkets(st, sm)
        /\ AllTokenPairs \in {NewTokenPairs(pm) :
                                 pm \in PairsMaps(st, sm, PairKeys(st, sm))}
        /\ aborted = FALSE
        /\ inits = 1
        /\ rds = [tokens |-> <<rowLrc, rowWeth>>, tokErr |-> FALSE,
                  markets |-> <<rowWeth>>, mktErr |-> FALSE]
        /\ ret = NoCall
        /\ protocols = LoadedProtocols(st)
        /\ delegates = LoadedDelegates
        /\ orders = OrderStore
        /\ placeholder = NewPlaceholders
        /\ handled = NoDispatch
        /\ published = << >>
        /\ bus = NoBus

\* Ring-mined logs with their one indexed topic and every fill list; a call
\* of ConvertDown or of the order store may fail.
NextRing ==
    \E topics \in {t \in TopicLists : Len(t) = 2}, hashes \in FillLists,
       failure \in {<<FALSE, FALSE>>, <<TRUE, FALSE>>, <<FALSE, TRUE>>} :
        handleRingMinedEvent(topics, hashes, failure[1], failure[2])

SpecRing == InitExtractor /\ [][NextRing]_vars

\* The fill list of the ring-mined logs dispatched among the other events.
FewFillLists == {<<OrderHash1, UnknownOrderHash>>}

\* Logs of every event the processor subscribes to.
NextEvents ==
    \E topics \in TopicLists :
        \/ \E hashes \in FewFillLists, convErr \in BOOLEAN :
               handleRingMinedEvent(topics, hashes, convErr, FALSE)
        \/ handleOrderCancelledEvent(topics)
        \/ handleCutoffEvent(topics)
        \/ handleCutoffPairEvent(topics)
        \/ handleTransferEvent(topics)
        \/ handleApprovalEvent(topics)
        \/ handleTokenRegisteredEvent(topics)
        \/ handleTokenUnRegisteredEvent(topics)
        \/ handleAddressAuthorizedEvent(topics)
        \/ handleAddressDeAuthorizedEvent(topics)
        \/ handleWethDepositEvent(topics)
        \/ handleWethWithdrawalEvent(topics)

SpecEvents == InitExtractor /\ [][NextEvents]_vars

\* Transactions calling each of the eight methods the processor subscribes to.
NextMethods ==
    \/ \E m \in MethodDatas("submitRing") : handleSubmitRingMethod(m)
    \/ \E m \in MethodDatas("cancelOrder") : handleCancelOrderMethod(m)
    \/ \E m \in MethodDatas("cancelAllOrders") : handleCutoffMethod(m)
    \/ \E m \in MethodDatas("cancelAllOrdersByTradingPair") :
           handleCutoffPairMethod(m)
    \/ \E m \in MethodDatas("approve") : handleApproveMethod(m)
    \/ \E m \in MethodDatas("transfer") : handleTransferMethod(m)
    \/ \E m \in MethodDatas("deposit") : handleWethDepositMethod(m)
    \/ \E m \in MethodDatas("withdraw") : handleWethWithdrawalMethod(m)

SpecMethods == InitExtractor /\ [][NextMethods]_vars

\* Transactions outside the subscribed contracts: each is classified, and
\* published as a transfer of the native currency.
NextEthTransfer ==
    \/ \E tx \in Transactions, unlocked \in UnlockedSets :
           CallIsValidEthTransferTransaction(tx, unlocked)
    \/ \E tx \in Transactions : handleEthTransfer(tx)

SpecEthTransfer == InitExtractor /\ [][NextEthTransfer]_vars

\* Lists of fork events, each sorted.
NextFork == \E list \in ForkEventLists : CallSort(list)

SpecFork == InitExtractor /\ [][NextFork]_vars

\* Prices of every pair of amounts, the registry holding the tokens l and w.
NextPrice ==
    \E amountS \in AmountTexts, amountB \in AmountTexts, s \in PriceTokens :
        CallCalculatePrice(amountS, amountB, s, <<"w">>)

SpecPrice == InitExtractor /\ [][NextPrice]_vars

\* Payloads dispatched to the subscriptions, their handlers begun and ended.
NextBus ==
    \E sig \in DispatchedSignatures :
        \/ Dispatch(sig)
        \/ Begin(sig)
        \/ Complete(sig)

SpecBus == InitExtractor /\ [][NextBus]_vars

----------------------------------------------------------------------------
(* properties of the registry                                              *)

MarketKeys == DOMAIN SupportMarkets
TokenKeys  == DOMAIN SupportTokens

\* The tables the latest Initialize built from what its sources returned.
LatestTokens  == LoadTokens(EmptyMap, rds.tokens)
LatestMarkets == LoadMarkets(EmptyMap, rds.markets)

Initialized == inits > 0 /\ ~aborted

NoHyphen(sym) == \A i \in 1..Len(sym) : sym[i] # "-"
Clean(sym) == NoHyphen(sym) /\ TrimSpace(sym) = sym

MarketOf(a, b) ==
    IF ToLower(a) \in MarketKeys /\ ToLower(b) \in TokenKeys
    THEN ToLower(a) ELSE ToLower(b)
TokenOf(a, b) ==
    IF ToLower(a) \in MarketKeys /\ ToLower(b) \in TokenKeys
    THEN ToLower(b) ELSE ToLower(a)

C3_Original ==
    Initialized =>
        /\ AllTokens = LatestTokens
        /\ BagToSet(AllMarkets) = BagToSet(NewMarkets(LatestTokens, LatestMarkets))
        /\ \E pm \in PairsMaps(LatestTokens, LatestMarkets,
                                PairKeys(LatestTokens, LatestMarkets)) :
               BagToSet(AllTokenPairs) = BagToSet(NewTokenPairs(pm))

\* C4 as stated: after one or more Initialize calls AllTokenPairs holds no
\* ordered (TokenS, TokenB) pair more than once, and holds the forward and
\* the reverse pair of every (market, token) combination of the tables.
C4_Original ==
    Initialized =>
        /\ \A p \in BagToSet(AllTokenPairs) : CopiesIn(p, AllTokenPairs) = 1
        /\ \A m \in MarketKeys, t \in TokenKeys :
               /\ BagIn(TokenPair(SupportMarkets[m].Protocol,
                                   SupportTokens[t].Protocol), AllTokenPairs)
               /\ BagIn(TokenPair(SupportTokens[t].Protocol,
                                   SupportMarkets[m].Protocol), AllTokenPairs)

\* C5 as stated: Initialize ends the process whenever a source returns zero
\* records, also when it returns an empty list and no error.
C5_Original ==
    (/\ inits > 0
     /\ \/ rds.tokErr
        \/ rds.mktErr
        \/ rds.tokens = << >>
        \/ rds.markets = << >>) => aborted

C7_WrapMarketRejects ==
    (Initialized /\ ret.op = "WrapMarket") =>
        LET a == ToLower(ret.a)
            b == ToLower(ret.b)
        IN  (/\ ~(a \in MarketKeys /\ b \in TokenKeys)
             /\ ~(b \in MarketKeys /\ a \in TokenKeys)) =>
                (ret.err /\ ret.s = EmptyString)

C7_Witness ==
    /\ Initialized
    /\ ret.op = "WrapMarket"
    /\ MarketKeys # {}
    /\ TokenKeys # {}
    /\ ToLower(ret.a) \notin MarketKeys
    /\ ToLower(ret.b) \notin MarketKeys
    /\ ret.a \in TokenKeys
    /\ ret.err

----------------------------------------------------------------------------
(* properties of the event handlers                                        *)

\* The latest payload was a ring-mined log that the handler processed to its
\* end: it had its indexed topic and neither ConvertDown nor the store failed.
RingProcessed ==
    /\ handled.handler = "handleRingMinedEvent"
    /\ Len(handled.topics) >= 2
    /\ ~handled.convErr
    /\ ~handled.dbErr

OrderFound(orderhash) == Hex(orderhash) \in DOMAIN orders

OwnerOf(orderhash) == HexToAddress(orders[Hex(orderhash)].Owner)

FillTopics == {"OrderManagerExtractorFill", "TxManagerOrderFilledEvent"}

\* The order hashes of the payload's fills whose order the store has, in order.
MatchedFills == SelectSeq(handled.fills, OrderFound)

IsTxManagerFill(e) == e.topic = "TxManagerOrderFilledEvent"
HasOrder(e) == OrderFound(e.data.OrderHash)

\* The transaction-manager fill events published for matched fills, in order.
TxManagerMatched == SelectSeq(SelectSeq(published, IsTxManagerFill), HasOrder)

\* C8 as stated: of a ring-mined event's fills, one whose order hash is not
\* in the order store is published on neither fill topic, and every fill
\* whose order was found is published on both.
C8_Original ==
    RingProcessed =>
        /\ \A i \in 1..Len(published) :
               published[i].topic \in FillTopics =>
                   OrderFound(published[i].data.OrderHash)
        /\ \A j \in 1..Len(handled.fills) :
               OrderFound(handled.fills[j]) =>
                   \A tp \in FillTopics :
                       \E i \in 1..Len(published) :
                           /\ published[i].topic = tp
                           /\ published[i].data.OrderHash = handled.fills[j]

\* C9 as stated: the i-th of the n matched fills sells to the owner of
\* matched fill (i+1) mod n and buys from the owner of matched fill
\* (i-1) mod n, and no published fill has an unset owner as a counterparty.
C9_Original ==
    RingProcessed =>
        LET n == Len(MatchedFills)
        IN  /\ Len(TxManagerMatched) = n
            /\ \A i \in 1..n :
                   /\ TxManagerMatched[i].data.SellTo =
                          OwnerOf(MatchedFills[(i % n) + 1])
                   /\ TxManagerMatched[i].data.BuyFrom =
                          OwnerOf(MatchedFills[((i + n - 2) % n) + 1])
            /\ \A i \in 1..Len(published) :
                   IsTxManagerFill(published[i]) =>
                       /\ published[i].data.SellTo # NilAddress
                       /\ published[i].data.BuyFrom # NilAddress

\* The handlers that test the number of topics, and how many each needs.
RequiredTopics ==
    [h \in {"handleRingMinedEvent", "handleOrderCancelledEvent",
            "handleCutoffEvent", "handleCutoffPairEvent",
            "handleAddressAuthorizedEvent", "handleAddressDeAuthorizedEvent",
            "handleWethDepositEvent", "handleWethWithdrawalEvent",
            "handleTransferEvent", "handleApprovalEvent"} |->
        IF h \in {"handleTransferEvent", "handleApprovalEvent"} THEN 3 ELSE 2]

\* C10: a handler that needs indexed topics, given a log with fewer than it
\* needs, publishes nothing and returns nil.
C10_ShortTopicsPublishNothing ==
    (/\ handled.handler \in DOMAIN RequiredTopics
     /\ Len(handled.topics) < RequiredTopics[handled.handler]) =>
        /\ published = << >>
        /\ handled.ret = "nil"

C10_Witness ==
    /\ handled.handler = "handleTransferEvent"
    /\ Len(handled.topics) = 2
    /\ published = << >>
    /\ handled.ret = "nil"

----------------------------------------------------------------------------
(* properties of the method handlers                                       *)

\* C11 as stated: no dispatched payload makes a handler panic, whatever its
\* input data: every handler returns normally.
C11_Original == handled.ret # "panic"

\* C15: a submitRing payload publishes exactly one submit-ring notification,
\* whatever the transaction's status and input data, and the notification
\* carries an error exactly when the status is failed.
C15_SubmitRingNotifiesOnce ==
    handled.handler = "handleSubmitRingMethod" =>
        /\ handled.ret = "nil"
        /\ Len(published) = 1
        /\ published[1].topic = "Miner_SubmitRing_Method"
        /\ (published[1].data.Err # "nil") <=>
               (handled.method.Status = "TX_STATUS_FAILED")

C15_Witness ==
    /\ handled.handler = "handleSubmitRingMethod"
    /\ handled.method.Status = "TX_STATUS_FAILED"
    /\ handled.method.Input = <<"0", "x">>
    /\ Len(published) = 1
    /\ published[1].data.Err = "failed"

\* The handlers of approvals, transfers and wrapped-token deposits and
\* withdrawals, and the topics of their two audiences.
FanOutEventHandlers ==
    {"handleApprovalEvent", "handleTransferEvent",
     "handleWethDepositEvent", "handleWethWithdrawalEvent"}

FanOutMethodHandlers ==
    {"handleApproveMethod", "handleTransferMethod",
     "handleWethDepositMethod", "handleWethWithdrawalMethod"}

AccountTopics ==
    {"AccountApproval", "AccountTransfer", "WethDepositEvent",
     "WethWithdrawalEvent", "ApproveMethod", "WethDepositMethod",
     "WethWithdrawalMethod"}

TxManagerTopics ==
    {"TxManagerApproveEvent", "TxManagerTransferEvent",
     "TxManagerWethDepositEvent", "TxManagerWethWithdrawalEvent",
     "TxManagerApproveMethod", "TxManagerTransferMethod",
     "TxManagerWethDepositMethod", "TxManagerWethWithdrawalMethod"}

\* The latest payload was one of these and was decoded: a log with the
\* topics its handler needs, a method whose input unpacked (deposit has none).
FanOutDecoded ==
    \/ /\ handled.handler \in FanOutEventHandlers
       /\ Len(handled.topics) >= RequiredTopics[handled.handler]
    \/ /\ handled.handler \in FanOutMethodHandlers
       /\ handled.ret = "nil"
       /\ \/ handled.handler = "handleWethDepositMethod"
          \/ ~UnpackMethodInput(MustDecodeInput(handled.method.Input).data).err

PublishedOn(topics) == \E i \in 1..Len(published) : published[i].topic \in topics

\* C19 as stated: every decoded approval, transfer, deposit and withdrawal,
\* event or method, is published on an account-facing topic and on a
\* transaction-history-facing topic, whoever the spender or the addresses.
C19_Original ==
    FanOutDecoded => PublishedOn(AccountTopics) /\ PublishedOn(TxManagerTopics)

\* C13: IsValidEthTransferTransaction is true exactly when the recipient is
\* no recognised contract, the value is above zero, and the sender or the
\* recipient is unlocked.
C13_ValidEthTransferIff ==
    handled.handler = "IsValidEthTransferTransaction" =>
        (handled.ret = TRUE <=>
            /\ HexToAddress(handled.tx.To) \notin DOMAIN protocols
            /\ handled.tx.Value > 0
            /\ \/ HexToAddress(handled.tx.From) \in handled.unlocked
               \/ HexToAddress(handled.tx.To) \in handled.unlocked)

C13_Witness ==
    /\ handled.handler = "IsValidEthTransferTransaction"
    /\ handled.ret = TRUE
    /\ handled.tx.To = <<"0", "x", "2">>
    /\ handled.tx.Value = 1
    /\ handled.unlocked = {<<"2">>}

----------------------------------------------------------------------------
(* properties of the fork-event list                                       *)

SeqToBag(list) == BagOf(1..Len(list), LAMBDA i : list[i])

\* C12: a sorted list of fork events ascends by block number, equal block
\* numbers by log index, and holds the events of the input, each as often.
C12_SortAscending ==
    handled.handler = "sort.Sort" =>
        /\ \A i \in 1..(Len(handled.ret) - 1) :
               LET x == handled.ret[i]
                   y == handled.ret[i + 1]
               IN  \/ x.BlockNumber < y.BlockNumber
                   \/ /\ x.BlockNumber = y.BlockNumber
                      /\ x.LogIndex <= y.LogIndex
        /\ SeqToBag(handled.ret) = SeqToBag(handled.list)

C12_Witness ==
    /\ handled.handler = "sort.Sort"
    /\ handled.list = <<InnerForkEvent(32, 3), InnerForkEvent(32, 2),
                        InnerForkEvent(35, 3)>>
    /\ handled.ret = <<InnerForkEvent(32, 2), InnerForkEvent(32, 3),
                       InnerForkEvent(35, 3)>>

----------------------------------------------------------------------------
(* properties of the prices                                                *)

\* C14: CalculatePrice returns 0 whenever the sell amount or the buy amount
\* decodes to the integer 0, whatever the other amount and the tokens.
C14_ZeroAmountZeroPrice ==
    (/\ ret.op = "CalculatePrice"
     /\ \/ UnmarshalText(ret.a) = 0
        \/ UnmarshalText(ret.b) = 0) =>
        ret.price = FloatZero

C14_Witness ==
    /\ ret.op = "CalculatePrice"
    /\ ret.a = <<"0">>
    /\ ret.b = <<"6">>
    /\ ret.s = <<"l">>
    /\ ret.price = FloatZero

\* C18 as stated: the conversion maps every serialized amount a to a / 10^18,
\* also at and above the power of two where an int64 ends: it never wraps,
\* changes sign or gives zero for a non-zero amount.
C18_Original ==
    ret.op = "CalculatePrice" =>
        /\ ret.as = UnmarshalText(ret.a)
        /\ ret.ab = UnmarshalText(ret.b)

\* C20 as stated: after Initialize every key of the token table and of the
\* market table is lower-case, so every symbol Initialize stored is found
\* under its lower-cased form, the form WrapMarket looks up.
C20_Original ==
    Initialized =>
        /\ \A k \in TokenKeys \cup MarketKeys : ToLower(k) = k
        /\ \A i \in 1..Len(rds.tokens) :
               IsSupportedToken(ToLower(rds.tokens[i].Symbol))
        /\ \A i \in 1..Len(rds.markets) :
               IsSupportedMarket(ToLower(rds.markets[i].Symbol))

----------------------------------------------------------------------------
(* properties of the dispatch bus and of the decode records                *)

\* C16: for every subscription, no two handler executions overlap and the
\* handlers begin in the order their payloads were dispatched.
C16_NonConcurrentFifo ==
    \A sig \in Subscriptions :
        /\ Cardinality(bus.running[sig]) <= 1
        /\ \A i \in 1..Len(bus.started[sig]), j \in 1..Len(bus.started[sig]) :
               i < j => bus.started[sig][i] < bus.started[sig][j]

C16_Witness ==
    \E sig \in Subscriptions :
        /\ Len(bus.started[sig]) = 2
        /\ bus.running[sig] # {}
        /\ bus.queue[sig] # << >>

\* C17 as stated: the record GetEvent returns for a payload carries a fresh
\* typed payload: no field that a handler wrote while decoding an earlier
\* payload of the signature is visible in it.
C17_Original ==
    \A n \in EventNames : GetEvent(n).Event = NewPlaceholders[n]

----------------------------------------------------------------------------
(* properties of the authorisation events and of the ring's publications   *)

\* C21 as stated: a decoded AddressDeauthorized event is published on a
\* topic of its own, and never on the topic of the AddressAuthorized events.
C21_Original ==
    (/\ handled.handler = "handleAddressDeAuthorizedEvent"
     /\ Len(handled.topics) >= 2) =>
        /\ published # << >>
        /\ \A i \in 1..Len(published) : published[i].topic # "AddressAuthorized"

\* The latest payload was a ring-mined log with its indexed topic that
\* ConvertDown accepted.
RingConverted ==
    /\ handled.handler = "handleRingMinedEvent"
    /\ Len(handled.topics) >= 2
    /\ ~handled.convErr

\* C22: of one ring-mined payload the summary is published first and once,
\* every order-manager fill before every transaction-manager fill; when the
\* order store fails, the summary is all that is published.
C22_SummaryThenFillsInOrder ==
    RingConverted =>
        /\ Len(published) >= 1
        /\ published[1].topic = "OrderManagerExtractorRingMined"
        /\ \A i \in 2..Len(published) : published[i].topic \in FillTopics
        /\ \A i \in 1..Len(published), j \in 1..Len(published) :
               (/\ published[i].topic = "TxManagerOrderFilledEvent"
                /\ published[j].topic = "OrderManagerExtractorFill") => j < i
        /\ handled.dbErr => Len(published) = 1

C22_Witness ==
    /\ RingConverted
    /\ ~handled.dbErr
    /\ Len(handled.fills) = 2
    /\ Len(published) = 5
    /\ published[1].topic = "OrderManagerExtractorRingMined"
    /\ published[3].topic = "OrderManagerExtractorFill"
    /\ published[4].topic = "TxManagerOrderFilledEvent"

\* The store failed after the summary was published.
C22_WitnessStoreFails ==
    /\ RingConverted
    /\ handled.dbErr
    /\ Len(handled.fills) = 2
    /\ Len(published) = 1

====
